---- MODULE Spec2Model ----
(* Model of the Conan recipe conanfile.py (class UpClientZenoh): the        *)
(* requirement resolver, the toolchain generator and the three phases that  *)
(* branch on the environment variable BUILD_DIR_FULL_PATH.                  *)
EXTENDS Integers, Sequences, FiniteSets, TLC

(* ---------------------------------------------------------------------- *)
(* Bounds                                                                   *)
(* ---------------------------------------------------------------------- *)
\* how many times the environment may be changed from outside during a run
MaxEnvChanges == 1

(* ---------------------------------------------------------------------- *)
(* Values                                                                   *)
(* ---------------------------------------------------------------------- *)
\* os.environ.get(k) returns None or the string: an option, <<>> or <<v>>
None == <<>>
Some(v) == <<v>>

\* values the variable BUILD_DIR_FULL_PATH may hold when it is set
EnvStrings == {"", "/tmp/prebuilt", "/opt/missing"}
EnvValues == {None} \cup {Some(v) : v \in EnvStrings}

\* order of the phases as the orchestrator calls the recipe's methods
PhaseOrder == <<"requirements", "generate", "build", "package", "package_info", "done">>
EnvPhases == {"build", "package", "package_info"}

\* files: dir, name as <<prefix, stem, extension>>, kind, link target
LibFooA == [dir |-> "lib", name |-> <<"lib", "foo", ".a">>, kind |-> "file", target |-> <<>>]
LibFooSo == [dir |-> "lib", name |-> <<"lib", "foo", ".so">>, kind |-> "link", target |-> <<"lib", "foo", ".a">>]
HeaderUp == [dir |-> "include", name |-> <<"", "UpClient", ".h">>, kind |-> "file", target |-> <<>>]
LibZenohA == [dir |-> "lib", name |-> <<"lib", "up-client-zenoh-cpp", ".a">>, kind |-> "file", target |-> <<>>]

\* what may lie under /tmp/prebuilt/install
PrebuiltEntries == {LibFooA, LibFooSo, HeaderUp}
\* what the native toolchain's install step may put into the package folder
InstallOutputs == {{}, {LibZenohA}, {LibZenohA, HeaderUp}}

(* ---------------------------------------------------------------------- *)
(* State                                                                    *)
(* ---------------------------------------------------------------------- *)
VARIABLES
    options,        \* self.options, fixed at configuration time
    environ,        \* os.environ.get("BUILD_DIR_FULL_PATH"): None or Some(v)
    fs,             \* contents of <path>/install for every path
    pc,             \* index into PhaseOrder: the next method to be called
    requires,       \* references passed to self.requires, in call order
    tc_variables,   \* tc.variables of the generated toolchain, <<name, value>> pairs
    tc_generated,   \* tc.generate() has been called
    cmake_calls,    \* calls made on CMake(self), in order
    output,         \* messages written with self.output.info
    package_folder, \* files of the package output
    cpp_info,       \* self.cpp_info
    observed,       \* per phase: what os.environ.get returned when it ran
    mode,           \* per phase: the state selected from the detector's result
    envChanges      \* number of outside changes of the environment so far

vars == <<options, environ, fs, pc, requires, tc_variables, tc_generated,
          cmake_calls, output, package_folder, cpp_info, observed, mode,
          envChanges>>

\* the option surface of the recipe
OptionNames == {"shared", "fPIC", "build_testing", "build_unbundled", "build_cross_compiling"}
OptionSets == [OptionNames -> BOOLEAN]

default_options ==
    [n \in OptionNames |-> IF n = "build_unbundled" THEN TRUE ELSE FALSE]

EmptyCppInfo == [properties |-> {}, libs |-> <<>>, requires |-> <<>>, names |-> {}]

Phase == PhaseOrder[pc]

(* ---------------------------------------------------------------------- *)
(* Helpers                                                                  *)
(* ---------------------------------------------------------------------- *)
\* variant: the channel qualifier is added when not cross compiling
ProtobufRef_ChannelWhenNative(opts) ==
    <<"protobuf", "/", "3.21.12">>
        \o (IF ~opts["build_cross_compiling"] THEN <<"@", "cross/cross">> ELSE <<>>)

\* a reference is a sequence of tokens; "a" + "b" is concatenation
ProtobufRef(opts) ==
    <<"protobuf", "/", "3.21.12">>
        \o (IF opts["build_cross_compiling"] THEN <<"@", "cross/cross">> ELSE <<>>)

\* variant: the zenohc line is indented into the build_testing block
Requirements_BackendUnderTesting(opts) ==
    <<ProtobufRef(opts), <<"spdlog", "/", "1.13.0">>, <<"up-cpp", "/", "x.y.z">>>>
        \o (IF opts["build_testing"]
              THEN <<<<"gtest", "/", "1.14.0">>, <<"boost", "/", "1.84.0">>>>
                     \o (IF opts["build_unbundled"]
                           THEN <<<<"zenohc", "/", "cci.20240213">>>>
                           ELSE <<>>)
              ELSE <<>>)

\* the references requirements() passes to self.requires, in call order
Requirements(opts) ==
    <<ProtobufRef(opts), <<"spdlog", "/", "1.13.0">>, <<"up-cpp", "/", "x.y.z">>>>
        \o (IF opts["build_testing"]
              THEN <<<<"gtest", "/", "1.14.0">>, <<"boost", "/", "1.84.0">>>>
              ELSE <<>>)
        \o (IF opts["build_unbundled"]
              THEN <<<<"zenohc", "/", "cci.20240213">>>>
              ELSE <<>>)

\* variant: the toolchain variable is fed from the wrong option
ToolchainVariables_Unbundled(opts) == {<<"BUILD_TESTING", opts["build_unbundled"]>>}

\* the variables generate() puts into the toolchain
ToolchainVariables(opts) == {<<"BUILD_TESTING", opts["build_testing"]>>}

\* variant: the truthiness test `if os.environ.get(...)`, false for ""
OverridePresent_NonEmpty(e) == e # None /\ e # Some("")

\* os.environ.get("BUILD_DIR_FULL_PATH") is not None
OverridePresent(e) == e # None

\* the state of the build mode selector for a detector result
SelectMode(e) == IF OverridePresent(e) THEN "IMPORT_PREBUILT" ELSE "NATIVE_BUILD"

\* ('%s/install') % (build_folder_path)
InstallDir(path) == <<path, "/install">>

\* the files below a directory of the file system (none when it does not exist)
TreeAt(files, dir) == IF dir \in DOMAIN files THEN files[dir] ELSE {}

\* fnmatch of a file against the pattern; '*' matches every relative path
Matches(pattern, entry, ignore_case) == pattern = "*"

\* variant: links are always followed, the target's content is copied
CopyEntry_Deref(entry, symlinks) ==
    IF entry.kind = "link"
      THEN [entry EXCEPT !.kind = "file", !.target = <<>>]
      ELSE entry

\* one file as copied: a link stays a link only when symlinks are kept
CopyEntry(entry, symlinks) ==
    IF entry.kind = "link" /\ ~symlinks
      THEN [entry EXCEPT !.kind = "file", !.target = <<>>]
      ELSE entry

\* self.copy(pattern, dst='.', src, symlinks, ignore_case): the copied files
Copy(files, pattern, src, symlinks, ignore_case) ==
    {CopyEntry(e, symlinks) : e \in {f \in TreeAt(files, src) : Matches(pattern, f, ignore_case)}}

\* extensions collect_libs takes for libraries
LibExtensions == {".so", ".lib", ".a", ".dylib", ".bc"}

\* the library name collect_libs derives from a file name
LibName(name) == IF name[3] # ".lib" /\ name[1] = "lib" THEN name[2] ELSE name[1] \o name[2]

\* the order result.sort() gives to the names that can occur
SortedNames == <<"foo", "up-client-zenoh-cpp">>

RECURSIVE SortedSeq(_, _)
SortedSeq(names, i) ==
    IF i > Len(SortedNames) THEN <<>>
    ELSE (IF SortedNames[i] \in names THEN <<SortedNames[i]>> ELSE <<>>)
             \o SortedSeq(names, i + 1)

\* variant: links in the lib folder are skipped
collect_libs_FilesOnly(folder) ==
    SortedSeq({LibName(e.name) : e \in {f \in folder :
        f.dir = "lib" /\ f.name[3] \in LibExtensions /\ f.kind = "file"}}, 1)

\* collect_libs(self): the libraries in the lib folder of the package, sorted
collect_libs(folder) ==
    SortedSeq({LibName(e.name) : e \in {f \in folder : f.dir = "lib" /\ f.name[3] \in LibExtensions}}, 1)

\* self.cpp_info.set_property(k, v) and self.cpp_info.names[k] = v
SetKey(pairs, k, v) == {p \in pairs : p[1] # k} \cup {<<k, v>>}

\* variant: the transport backend is left out of the link targets
PackageInfo_ThreeTargets(info, e, folder) ==
    IF OverridePresent(e)
      THEN [properties |->
                SetKey(SetKey(SetKey(info.properties,
                    "cmake_file_name", "up-client-zenoh-cpp"),
                    "cmake_target_name", "up-client-zenoh-cpp::up-client-zenoh-cpp"),
                    "pkg_config_name", "up-client-zenoh-cpp"),
            libs |-> collect_libs(folder),
            requires |-> <<<<"up-cpp", "::", "up-cpp">>,
                           <<"spdlog", "::", "spdlog">>, <<"protobuf", "::", "protobuf">>>>,
            names |->
                SetKey(SetKey(info.names,
                    "cmake_find_package", "up-client-zenoh-cpp"),
                    "cmake_find_package_multi", "up-client-zenoh-cpp")]
      ELSE [info EXCEPT !.libs = <<"up-client-zenoh-cpp">>]

\* variant: the test is `is None`, the two branches change places
PackageInfo_Inverted(info, e, folder) ==
    IF ~OverridePresent(e)
      THEN [properties |->
                SetKey(SetKey(SetKey(info.properties,
                    "cmake_file_name", "up-client-zenoh-cpp"),
                    "cmake_target_name", "up-client-zenoh-cpp::up-client-zenoh-cpp"),
                    "pkg_config_name", "up-client-zenoh-cpp"),
            libs |-> collect_libs(folder),
            requires |-> <<<<"up-cpp", "::", "up-cpp">>, <<"zenohc", "::", "zenohc">>,
                           <<"spdlog", "::", "spdlog">>, <<"protobuf", "::", "protobuf">>>>,
            names |->
                SetKey(SetKey(info.names,
                    "cmake_find_package", "up-client-zenoh-cpp"),
                    "cmake_find_package_multi", "up-client-zenoh-cpp")]
      ELSE [info EXCEPT !.libs = <<"up-client-zenoh-cpp">>]

\* the record package_info() leaves in self.cpp_info
PackageInfo(info, e, folder) ==
    IF OverridePresent(e)
      THEN [properties |->
                SetKey(SetKey(SetKey(info.properties,
                    "cmake_file_name", "up-client-zenoh-cpp"),
                    "cmake_target_name", "up-client-zenoh-cpp::up-client-zenoh-cpp"),
                    "pkg_config_name", "up-client-zenoh-cpp"),
            libs |-> collect_libs(folder),
            requires |-> <<<<"up-cpp", "::", "up-cpp">>, <<"zenohc", "::", "zenohc">>,
                           <<"spdlog", "::", "spdlog">>, <<"protobuf", "::", "protobuf">>>>,
            names |->
                SetKey(SetKey(info.names,
                    "cmake_find_package", "up-client-zenoh-cpp"),
                    "cmake_find_package_multi", "up-client-zenoh-cpp")]
      ELSE [info EXCEPT !.libs = <<"up-client-zenoh-cpp">>]

(* ---------------------------------------------------------------------- *)
(* Initial state                                                            *)
(* ---------------------------------------------------------------------- *)
Init ==
    /\ options \in OptionSets
    /\ environ \in EnvValues
    /\ fs \in [{InstallDir("/tmp/prebuilt")} -> SUBSET PrebuiltEntries]
    /\ pc = 1
    /\ requires = <<>>
    /\ tc_variables = {}
    /\ tc_generated = FALSE
    /\ cmake_calls = <<>>
    /\ output = <<>>
    /\ package_folder = {}
    /\ cpp_info = EmptyCppInfo
    /\ observed = [p \in EnvPhases |-> None]
    /\ mode = [p \in EnvPhases |-> "none"]
    /\ envChanges = 0

(* ---------------------------------------------------------------------- *)
(* Phases                                                                   *)
(* ---------------------------------------------------------------------- *)
\* def requirements(self)
RequirementsPhase ==
    /\ Phase = "requirements"
    /\ requires' = requires \o Requirements(options)
    /\ pc' = pc + 1
    /\ UNCHANGED <<options, environ, fs, tc_variables, tc_generated, cmake_calls,
                   output, package_folder, cpp_info, observed, mode, envChanges>>

\* def generate(self)
Generate ==
    /\ Phase = "generate"
    /\ tc_variables' = tc_variables \cup ToolchainVariables(options)
    /\ tc_generated' = TRUE
    /\ pc' = pc + 1
    /\ UNCHANGED <<options, environ, fs, requires, cmake_calls, output,
                   package_folder, cpp_info, observed, mode, envChanges>>

\* def build(self)
Build ==
    /\ Phase = "build"
    /\ observed' = [observed EXCEPT !["build"] = environ]
    /\ mode' = [mode EXCEPT !["build"] = SelectMode(environ)]
    /\ IF OverridePresent(environ)
         THEN cmake_calls' = cmake_calls
         ELSE cmake_calls' = cmake_calls \o <<"configure", "build">>
    /\ pc' = pc + 1
    /\ UNCHANGED <<options, environ, fs, requires, tc_variables, tc_generated,
                   output, package_folder, cpp_info, envChanges>>

\* variant: package reuses the detector result that build saw
Package_Cached ==
    /\ Phase = "package"
    /\ observed' = [observed EXCEPT !["package"] = environ]
    /\ mode' = [mode EXCEPT !["package"] = SelectMode(observed["build"])]
    /\ IF OverridePresent(observed["build"])
         THEN /\ output' = output \o <<<<"BUILD_DIR_FULL_PATH: ", observed["build"][1]>>,
                                       <<"BUILD_DIR_FULL_PATH: ", observed["build"][1]>>>>
              /\ package_folder' = package_folder
                     \cup Copy(fs, "*", InstallDir(observed["build"][1]), TRUE, FALSE)
              /\ cmake_calls' = cmake_calls
         ELSE /\ cmake_calls' = cmake_calls \o <<"install">>
              /\ \E installed \in InstallOutputs :
                     package_folder' = package_folder \cup installed
              /\ output' = output
    /\ pc' = pc + 1
    /\ UNCHANGED <<options, environ, fs, requires, tc_variables, tc_generated,
                   cpp_info, envChanges>>

\* def package(self)
Package ==
    /\ Phase = "package"
    /\ observed' = [observed EXCEPT !["package"] = environ]
    /\ mode' = [mode EXCEPT !["package"] = SelectMode(environ)]
    /\ IF OverridePresent(environ)
         THEN /\ output' = output \o <<<<"BUILD_DIR_FULL_PATH: ", environ[1]>>,
                                       <<"BUILD_DIR_FULL_PATH: ", environ[1]>>>>
              /\ package_folder' = package_folder
                     \cup Copy(fs, "*", InstallDir(environ[1]), TRUE, FALSE)
              /\ cmake_calls' = cmake_calls
         ELSE /\ cmake_calls' = cmake_calls \o <<"install">>
              /\ \E installed \in InstallOutputs :
                     package_folder' = package_folder \cup installed
              /\ output' = output
    /\ pc' = pc + 1
    /\ UNCHANGED <<options, environ, fs, requires, tc_variables, tc_generated,
                   cpp_info, envChanges>>

\* def package_info(self)
PackageInfoPhase ==
    /\ Phase = "package_info"
    /\ observed' = [observed EXCEPT !["package_info"] = environ]
    /\ mode' = [mode EXCEPT !["package_info"] = SelectMode(environ)]
    /\ cpp_info' = PackageInfo(cpp_info, environ, package_folder)
    /\ pc' = pc + 1
    /\ UNCHANGED <<options, environ, fs, requires, tc_variables, tc_generated,
                   cmake_calls, output, package_folder, envChanges>>

\* the environment of the process is changed from outside between phases
EnvChange ==
    /\ Phase # "done"
    /\ envChanges < MaxEnvChanges
    /\ \E e \in EnvValues \ {environ} : environ' = e
    /\ envChanges' = envChanges + 1
    /\ UNCHANGED <<options, fs, pc, requires, tc_variables, tc_generated,
                   cmake_calls, output, package_folder, cpp_info, observed, mode>>

Next ==
    \/ RequirementsPhase
    \/ Generate
    \/ Build
    \/ Package
    \/ PackageInfoPhase
    \/ EnvChange

Spec == Init /\ [][Next]_vars

(* ---------------------------------------------------------------------- *)
(* Vocabulary of the properties                                             *)
(* ---------------------------------------------------------------------- *)
PackageName == "up-client-zenoh-cpp"

\* a phase has run when the orchestrator is past it
Ran(i) == pc > i
RanBuild == Ran(3)
RanPackage == Ran(4)
RanPackageInfo == Ran(5)

Prop(k) == {p[2] : p \in {q \in cpp_info.properties : q[1] = k}}
LinkTargets == {cpp_info.requires[i] : i \in 1..Len(cpp_info.requires)}
LibSet == {cpp_info.libs[i] : i \in 1..Len(cpp_info.libs)}
CallSet == {cmake_calls[i] : i \in 1..Len(cmake_calls)}
BuildCalls == SelectSeq(cmake_calls, LAMBDA c : c \in {"configure", "build"})

\* the four link targets: transport API, transport backend, logging, serialization
FourTargets == {<<"up-cpp", "::", "up-cpp">>, <<"zenohc", "::", "zenohc">>,
                <<"spdlog", "::", "spdlog">>, <<"protobuf", "::", "protobuf">>}

HasFourTargets == Len(cpp_info.requires) = Cardinality(FourTargets) /\ LinkTargets = FourTargets

MinimalRecord ==
    /\ cpp_info.libs = <<PackageName>>
    /\ cpp_info.properties = {}
    /\ cpp_info.requires = <<>>
    /\ cpp_info.names = {}

(* ---------------------------------------------------------------------- *)
(* C1                                                                       *)
(* ---------------------------------------------------------------------- *)
\* C1 as stated: when BUILD_DIR_FULL_PATH is unset, package_info publishes
\* the three discovery aliases, all equal to the package name, and exactly
\* the four upstream link targets.
C1_FullWhenUnset ==
    (RanPackageInfo /\ observed["package_info"] = None) =>
        /\ Prop("cmake_file_name") = {PackageName}
        /\ Prop("cmake_target_name") = {PackageName}
        /\ Prop("pkg_config_name") = {PackageName}
        /\ HasFourTargets

\* C1 amended: it is when BUILD_DIR_FULL_PATH is set (to any string) that
\* package_info publishes the aliases cmake_file_name and pkg_config_name
\* equal to the package name, cmake_target_name equal to the namespaced
\* name::name, and exactly the four upstream link targets.
C1_FullWhenSet ==
    (RanPackageInfo /\ observed["package_info"] # None) =>
        /\ Prop("cmake_file_name") = {PackageName}
        /\ Prop("cmake_target_name") = {"up-client-zenoh-cpp::up-client-zenoh-cpp"}
        /\ Prop("pkg_config_name") = {PackageName}
        /\ HasFourTargets

C1_Witness ==
    /\ RanPackageInfo
    /\ observed["package_info"] = Some("/tmp/prebuilt")
    /\ HasFourTargets
    /\ Prop("cmake_file_name") = {PackageName}

(* ---------------------------------------------------------------------- *)
(* C2                                                                       *)
(* ---------------------------------------------------------------------- *)
\* C2 as stated: when BUILD_DIR_FULL_PATH names an override path,
\* package_info publishes only the minimal record: the artifact's name, no
\* discovery alias and no upstream requirement list.
C2_MinimalWhenSet ==
    (RanPackageInfo /\ observed["package_info"] \notin {None, Some("")}) =>
        MinimalRecord

\* C2 amended: it is when BUILD_DIR_FULL_PATH is unset that package_info
\* publishes only the minimal record, and that record is strictly less than
\* the one any set value would have produced from the same package output.
C2_MinimalWhenUnset ==
    (RanPackageInfo /\ observed["package_info"] = None) =>
        /\ MinimalRecord
        /\ \A v \in EnvStrings :
             LET full == PackageInfo(EmptyCppInfo, Some(v), package_folder) IN
               /\ cpp_info.properties \subseteq full.properties
               /\ cpp_info.properties # full.properties
               /\ cpp_info.names \subseteq full.names
               /\ cpp_info.names # full.names
               /\ Len(cpp_info.requires) < Len(full.requires)

C2_Witness ==
    /\ RanPackageInfo
    /\ observed["package_info"] = None
    /\ cpp_info.libs = <<PackageName>>
    /\ cpp_info.requires = <<>>

(* ---------------------------------------------------------------------- *)
(* C3                                                                       *)
(* ---------------------------------------------------------------------- *)
\* C3 as stated: a phase selects IMPORT_PREBUILT exactly when the variable
\* holds a non-empty string; unset and the empty string select NATIVE_BUILD.
C3_PresentIffNonEmpty ==
    \A p \in EnvPhases :
        mode[p] # "none" =>
            (mode[p] = "IMPORT_PREBUILT" <=> observed[p] \notin {None, Some("")})

\* C3 amended: a phase selects IMPORT_PREBUILT exactly when the variable is
\* set, the empty string included; only an unset variable selects
\* NATIVE_BUILD. With the empty string build calls no toolchain and package
\* calls no install step.
C3_PresentIffSet ==
    /\ \A p \in EnvPhases :
         mode[p] # "none" =>
             /\ mode[p] = "IMPORT_PREBUILT" <=> observed[p] # None
             /\ mode[p] = "NATIVE_BUILD" <=> observed[p] = None
    /\ (RanBuild /\ observed["build"] = Some("")) => BuildCalls = <<>>
    /\ (RanPackage /\ observed["package"] = Some("")) => "install" \notin CallSet

C3_Witness ==
    /\ RanPackage
    /\ observed["build"] = Some("")
    /\ observed["package"] = Some("")
    /\ mode["build"] = "IMPORT_PREBUILT"
    /\ cmake_calls = <<>>

(* ---------------------------------------------------------------------- *)
(* C4                                                                       *)
(* ---------------------------------------------------------------------- *)
\* C4: the toolchain is called in build and in package exactly when the
\* detector found no override. Without override build calls configure then
\* build, and package calls install. With an override build does nothing at
\* all, and package calls no toolchain step but leaves in the package output
\* every file of <override_path>/install, links as links and names unchanged.
C4_ToolchainIffNoOverride ==
    /\ RanBuild =>
         IF OverridePresent(observed["build"])
           THEN BuildCalls = <<>>
           ELSE BuildCalls = <<"configure", "build">>
    /\ (Phase = "package" /\ OverridePresent(observed["build"])) =>
         /\ cmake_calls = <<>>
         /\ output = <<>>
         /\ package_folder = {}
         /\ cpp_info = EmptyCppInfo
    /\ RanPackage =>
         IF OverridePresent(observed["package"])
           THEN /\ "install" \notin CallSet
                /\ package_folder = TreeAt(fs, InstallDir(observed["package"][1]))
           ELSE cmake_calls = BuildCalls \o <<"install">>

C4_Witness ==
    /\ RanPackage
    /\ observed["build"] = Some("/tmp/prebuilt")
    /\ observed["package"] = Some("/tmp/prebuilt")
    /\ cmake_calls = <<>>
    /\ {LibFooA, LibFooSo, HeaderUp} \subseteq package_folder

(* ---------------------------------------------------------------------- *)
(* C5                                                                       *)
(* ---------------------------------------------------------------------- *)
RequiredNames == [i \in 1..Len(requires) |-> requires[i][1]]

\* C5: the requirement list is protobuf, spdlog, up-cpp, then gtest and
\* boost exactly when build_testing, then zenohc exactly when
\* build_unbundled: 3 entries when both are false, 6 when both are true, and
\* zenohc is there under the default options.
C5_RequirementList ==
    Ran(1) =>
        /\ RequiredNames =
               <<"protobuf", "spdlog", "up-cpp">>
                 \o (IF options["build_testing"] THEN <<"gtest", "boost">> ELSE <<>>)
                 \o (IF options["build_unbundled"] THEN <<"zenohc">> ELSE <<>>)
        /\ (~options["build_testing"] /\ ~options["build_unbundled"]) => Len(requires) = 3
        /\ (options["build_testing"] /\ options["build_unbundled"]) => Len(requires) = 6
        /\ options = default_options => RequiredNames[Len(requires)] = "zenohc"

C5_Witness ==
    /\ Ran(1)
    /\ options["build_testing"]
    /\ options["build_unbundled"]
    /\ Len(requires) = 6
    /\ RequiredNames[4] = "gtest"

(* ---------------------------------------------------------------------- *)
(* C6                                                                       *)
(* ---------------------------------------------------------------------- *)
\* a reference read as (name, version, channel qualifier)
RefName(ref) == ref[1]
RefVersion(ref) == ref[3]
RefChannel(ref) == IF Len(ref) > 3 THEN SubSeq(ref, 4, Len(ref)) ELSE <<>>

\* C6: the list for the same options with build_cross_compiling flipped has
\* the same length, the same names at the same places, the same versions,
\* and the same channel qualifiers except for protobuf, whose qualifier is
\* there exactly when build_cross_compiling is true.
C6_CrossCompilingFrame ==
    Ran(1) =>
        LET flipped == [options EXCEPT !["build_cross_compiling"] = ~@]
            other == Requirements(flipped)
        IN /\ Len(other) = Len(requires)
           /\ \A i \in 1..Len(requires) :
                /\ RefName(other[i]) = RefName(requires[i])
                /\ RefVersion(other[i]) = RefVersion(requires[i])
                /\ RefName(requires[i]) # "protobuf" =>
                       /\ RefChannel(other[i]) = RefChannel(requires[i])
                       /\ RefChannel(requires[i]) = <<>>
                /\ RefName(requires[i]) = "protobuf" =>
                       /\ RefChannel(requires[i]) # <<>> <=> options["build_cross_compiling"]
                       /\ RefChannel(other[i]) # <<>> <=> ~options["build_cross_compiling"]

C6_Witness ==
    /\ Ran(1)
    /\ options["build_cross_compiling"]
    /\ RefChannel(requires[1]) = <<"@", "cross/cross">>
    /\ RefChannel(requires[2]) = <<>>

(* ---------------------------------------------------------------------- *)
(* C7                                                                       *)
(* ---------------------------------------------------------------------- *)
\* the libraries of a package output, file by file
ScanAgrees ==
    /\ "foo" \in LibSet <=> (LibFooA \in package_folder \/ LibFooSo \in package_folder)
    /\ PackageName \in LibSet <=> LibZenohA \in package_folder
    /\ LibSet \subseteq {"foo", PackageName}
    /\ Len(cpp_info.libs) = Cardinality(LibSet)

\* C7 as stated: with BUILD_DIR_FULL_PATH unset the published library list
\* is what scanning the package output finds, and is empty when the package
\* output is empty.
C7_ScanWhenUnset ==
    (RanPackageInfo /\ observed["package_info"] = None) =>
        /\ ScanAgrees
        /\ package_folder = {} => cpp_info.libs = <<>>

\* C7 amended: it is with BUILD_DIR_FULL_PATH set that the published library
\* list is exactly what scanning the package output finds, none left out and
\* none made up, and empty when the package output is empty; with the
\* variable unset the list is always the single name up-client-zenoh-cpp,
\* whatever the package output holds.
C7_ScanWhenSet ==
    /\ (RanPackageInfo /\ observed["package_info"] # None) =>
         /\ ScanAgrees
         /\ package_folder = {} => cpp_info.libs = <<>>
    /\ (RanPackageInfo /\ observed["package_info"] = None) =>
         cpp_info.libs = <<PackageName>>

C7_Witness ==
    /\ RanPackageInfo
    /\ observed["package_info"] # None
    /\ package_folder = {LibFooSo}
    /\ cpp_info.libs = <<"foo">>

C7_WitnessEmpty ==
    /\ RanPackageInfo
    /\ observed["package_info"] # None
    /\ package_folder = {}
    /\ cpp_info.libs = <<>>

(* ---------------------------------------------------------------------- *)
(* C8                                                                       *)
(* ---------------------------------------------------------------------- *)
\* C8: generate sets exactly one toolchain variable, BUILD_TESTING, to the
\* value of the option build_testing, whatever the other options and the
\* environment are.
C8_BuildTestingMirrors ==
    /\ Ran(2) =>
         /\ tc_generated
         /\ Cardinality(tc_variables) = 1
         /\ tc_variables = {<<"BUILD_TESTING", options["build_testing"]>>}
    /\ ~Ran(2) => tc_variables = {}

C8_Witness ==
    /\ Ran(2)
    /\ options["build_testing"]
    /\ ~options["build_unbundled"]
    /\ environ # None
    /\ <<"BUILD_TESTING", TRUE>> \in tc_variables

(* ---------------------------------------------------------------------- *)
(* C9                                                                       *)
(* ---------------------------------------------------------------------- *)
SameEnvThroughout ==
    /\ observed["build"] = observed["package"]
    /\ observed["package"] = observed["package_info"]

FullRecord ==
    /\ HasFourTargets
    /\ Prop("cmake_file_name") # {}
    /\ Prop("cmake_target_name") # {}
    /\ Prop("pkg_config_name") # {}

\* C9 as stated: when the variable does not change during the run, the three
\* phases all show the NATIVE_BUILD behaviour of the table (toolchain build,
\* install step, full record) or all show the IMPORT_PREBUILT behaviour (no
\* build, copy, minimal record).
C9_SameTabulatedMode ==
    (RanPackageInfo /\ SameEnvThroughout) =>
        \/ /\ BuildCalls = <<"configure", "build">>
           /\ "install" \in CallSet
           /\ FullRecord
        \/ /\ BuildCalls = <<>>
           /\ "install" \notin CallSet
           /\ MinimalRecord

\* C9 amended: each of build, package and package_info acts on the value the
\* variable has when that phase runs, set or unset, and on nothing kept from
\* an earlier phase; when the value does not change the three phases take
\* the same branch, and a later phase follows a changed value. The branches
\* are: unset - toolchain build, install step, minimal record; set - no
\* build, copy, full record.
C9_PhaseFollowsCurrentEnv ==
    /\ RanBuild => (BuildCalls = <<>> <=> observed["build"] # None)
    /\ RanPackage =>
         /\ "install" \notin CallSet <=> observed["package"] # None
         /\ output # <<>> <=> observed["package"] # None
    /\ RanPackageInfo =>
         /\ FullRecord <=> observed["package_info"] # None
         /\ MinimalRecord <=> observed["package_info"] = None
    /\ (RanPackageInfo /\ SameEnvThroughout) =>
         /\ mode["build"] = mode["package"]
         /\ mode["package"] = mode["package_info"]

C9_Witness ==
    /\ RanPackageInfo
    /\ observed["build"] = None
    /\ observed["package"] = Some("/tmp/prebuilt")
    /\ BuildCalls = <<"configure", "build">>
    /\ "install" \notin CallSet
    /\ FullRecord

(* ---------------------------------------------------------------------- *)
(* C10                                                                      *)
(* ---------------------------------------------------------------------- *)
\* C10: every link target package_info publishes names a component that
\* requirements() declared for the same options; zenohc::zenohc is published
\* only when build_unbundled is true.
C10_TargetsAreDeclared ==
    (RanPackageInfo /\ cpp_info.requires # <<>>) =>
        /\ \A t \in LinkTargets : \E i \in 1..Len(requires) : requires[i][1] = t[1]
        /\ <<"zenohc", "::", "zenohc">> \in LinkTargets => options["build_unbundled"]

====
